---- MODULE Spec2Model ----
(***************************************************************************)
(* LLM Checkpoint: the version store, the editor-save path and the         *)
(* commit-correlation engine of src/src/extension.ts.                      *)
(*                                                                         *)
(* A content is a sequence of lines and a line is a sequence of tokens, so *)
(* that the commit marker line can embed the commit message.  A path is a  *)
(* sequence of segments, so that path.normalize has something to do.       *)
(* JavaScript handlers run to completion between awaits: every action is   *)
(* one such synchronous stretch of a handler.                              *)
(***************************************************************************)
EXTENDS Integers, Sequences, FiniteSets, TLC

\* ---------------------------------------------------------------- bounds
\* editor saves and manual saves are taken while the next version id is at
\* most this (the guards are in Next); correlation passes are not capped
MaxSaveVersionId == 1
\* number of times HEAD of one repository moves
MaxHeadChanges == 1
\* the store operation of a correlation pass that throws, counted from 1
MaxFailAt == 2
\* editor-save handlers suspended at their settings query at the same time
MaxSavesInFlight == 1

\* SaveSpec: saves are taken while the next version id plus the handlers in
\* flight is at most this
MaxSaveSteps == 2
\* SaveSpec: editor-save handlers suspended at the same time
MaxSaveHandlers == 2

\* StoreSpec: createVersion is called while the next version id is at most this
MaxStoreVersionId == 3

\* ---------------------------------------------------------------- inputs
\* git.repositories of a workspace with a single repository
Repos == {"r1"}

\* PairSpec: git.repositories of a workspace with two repositories
BothRepos == {"r1", "r2"}

\* workspace-relative paths of saved documents (vscode.workspace.asRelativePath)
DocPaths == {<<"a.txt">>, <<"b.txt">>, <<".", "b.txt">>}

\* workspace-relative paths of index changes, before path.normalize
IndexPaths == {<<".", "b.txt">>}

\* commit hashes; 0 stands for "no commit" and for "no entry"
Hashes == {1, 2}

BaseDoc == << <<"x">>, <<"y">> >>

\* document texts, as content.split('\n')
Docs == { BaseDoc, << <<"p">>, <<"q">>, <<"r">> >> }

\* SaveSpec: the paths saved
SavePaths == {<<"a.txt">>, <<"b.txt">>}

\* SaveSpec: a single line; one line of BaseDoc changed; BaseDoc with a final
\* newline; BaseDoc after three lines that start with "--"
SaveDocs ==
    Docs \cup { << <<"x">> >>,
                << <<"x">>, <<"z">> >>,
                << <<"x">>, <<"y">>, <<>> >>,
                << <<"--", "a">>, <<"--", "b">>, <<"--", "c">>, <<"x">>, <<"y">> >> }

\* stdout of `git log -1 --pretty=%B`
Stdouts == { <<>>, <<"\n">>, <<"fix", " ", "bug", "\n">> }

Whitespace == {" ", "\n"}

\* `changes.length <= 2` of the save handler
NoiseThreshold == 2

\* ---------------------------------------------------------------- state
VARIABLES
    files,              \* table files: row i has id i
    versions,           \* table versions: a set of rows
    nextVersionId,      \* AUTOINCREMENT counter of versions.id
    savesInFlight,      \* editor-save handlers awaiting getSaveAllChanges()
    head,               \* per repository: repository.state.HEAD?.commit, 0 = none
    headChanges,        \* history: how many times HEAD of the repository has moved
    index,              \* per repository: repository.state.indexChanges
    lastCommitByRepo,   \* module-level map, 0 = no entry
    stagedChangesMap,   \* module-level map: [has |-> entry present, files |-> set]
    isProcessingCommit, \* the closure variable of each watcher
    pc,                 \* where the in-flight notification handler is suspended
    commitMessage,      \* local of the in-flight round
    autoCleanup,        \* local of handleGitCommit, read again after the loop
    roundEpoch,         \* history: headChanges as read by the round in flight / last round
    processedCount,     \* handleGitCommit's local, kept after the round
    refreshes,          \* history: versionTreeProvider.refresh() calls of the round
    roundResult,        \* history: how the last round ended, "none" before it has
    annotLog,           \* history: <<epoch, file id>> of every annotated Version created
    ignored,            \* history: a notification was ignored during the round in flight
    issued              \* history kept by StoreSpec: per File, the highest
                        \* version_number ever assigned

storeVars == <<files, versions, nextVersionId>>
gitVars == <<head, headChanges, index>>
engineVars == <<lastCommitByRepo, stagedChangesMap, isProcessingCommit, pc, commitMessage,
                autoCleanup>>
historyVars == <<roundEpoch, processedCount, refreshes, roundResult, annotLog, ignored>>
vars == <<files, versions, nextVersionId, savesInFlight, head, headChanges, index,
          lastCommitByRepo, stagedChangesMap, isProcessingCommit, pc, commitMessage,
          autoCleanup, roundEpoch, processedCount, refreshes, roundResult, annotLog, ignored,
          issued>>

\* ---------------------------------------------------------------- helpers
Max(S) == CHOOSE m \in S : \A n \in S : n <= m

RECURSIVE NormalizeFrom(_, _, _)
NormalizeFrom(p, i, acc) ==
    IF i > Len(p) THEN acc
    ELSE IF p[i] = "." THEN NormalizeFrom(p, i + 1, acc)
    ELSE IF p[i] = ".." /\ Len(acc) > 0 /\ acc[Len(acc)] # ".."
         THEN NormalizeFrom(p, i + 1, SubSeq(acc, 1, Len(acc) - 1))
    ELSE NormalizeFrom(p, i + 1, Append(acc, p[i]))

\* path.normalize on a relative path: "." segments dropped, ".." resolved
Normalize(p) == NormalizeFrom(p, 1, <<>>)

RECURSIVE TrimLeft(_)
TrimLeft(s) ==
    IF Len(s) > 0 /\ s[1] \in Whitespace THEN TrimLeft(Tail(s)) ELSE s

RECURSIVE TrimRight(_)
TrimRight(s) ==
    IF Len(s) > 0 /\ s[Len(s)] \in Whitespace
    THEN TrimRight(SubSeq(s, 1, Len(s) - 1)) ELSE s

\* String.prototype.trim
Trim(s) == TrimRight(TrimLeft(s))

\* `/* Git commit: ${commitMessage} */\n${latestVersion.content}`
MarkerLine(msg) == <<"/* Git commit: ">> \o msg \o <<" */">>
MarkedContent(msg, content) == <<MarkerLine(msg)>> \o content

\* ---------------------------------------------------------------- version store
\* The store as a value, so that a handler can chain several calls.
Store == [files |-> files, versions |-> versions, nextVersionId |-> nextVersionId]

FileIds(db) == 1..Len(db.files)

VersionsOf(db, fileId) == {v \in db.versions : v.file_id = fileId}

\* getFile(path): the id of the File with that file_path, 0 when there is none
getFile(db, path) ==
    IF \E i \in FileIds(db) : db.files[i].file_path = path
    THEN CHOOSE i \in FileIds(db) : db.files[i].file_path = path
    ELSE 0

\* createFile(path): a new row with a null (0) current_version_id
createFile(db, path) ==
    [db EXCEPT !.files = Append(@, [file_path |-> path, current_version_id |-> 0])]

RECURSIVE SortDesc(_)
SortDesc(S) ==
    IF S = {} THEN <<>>
    ELSE LET top == CHOOSE v \in S : \A w \in S :
                        \/ w.version_number < v.version_number
                        \/ (w.version_number = v.version_number /\ w.id <= v.id)
         IN <<top>> \o SortDesc(S \ {top})

\* getFileVersions(fileId): newest first by version_number
getFileVersions(db, fileId) == SortDesc(VersionsOf(db, fileId))

\* getFileVersions(fileId, limit)
getFileVersionsLimit(db, fileId, limit) ==
    LET all == getFileVersions(db, fileId)
    IN IF Len(all) <= limit THEN all ELSE SubSeq(all, 1, limit)

NextVersionNumberReuse(db, fileId) == Cardinality(VersionsOf(db, fileId)) + 1

\* version_number = (max existing for the File) + 1, or 1
NextVersionNumber(db, fileId) ==
    IF VersionsOf(db, fileId) = {} THEN 1
    ELSE Max({v.version_number : v \in VersionsOf(db, fileId)}) + 1

\* createVersion(fileId, content): inserts the row and moves the File's pointer
createVersion(db, fileId, content) ==
    LET row == [id |-> db.nextVersionId, file_id |-> fileId, content |-> content,
                version_number |-> NextVersionNumber(db, fileId)]
    IN [files |-> [db.files EXCEPT ![fileId].current_version_id = row.id],
        versions |-> db.versions \cup {row},
        nextVersionId |-> db.nextVersionId + 1]

deleteVersionNoRepoint(db, versionId) ==
    [db EXCEPT !.versions = {v \in db.versions : v.id # versionId}]

\* deleteVersion(versionId): removes the row; a pointer to it moves to the
\* latest remaining Version of the File, or to null
deleteVersion(db, versionId) ==
    LET rest == {v \in db.versions : v.id # versionId}
        repoint(i) ==
            IF db.files[i].current_version_id # versionId
            THEN db.files[i].current_version_id
            ELSE LET left == SortDesc({v \in rest : v.file_id = i})
                 IN IF Len(left) = 0 THEN 0 ELSE left[1].id
    IN [files |-> [i \in FileIds(db) |->
                     [db.files[i] EXCEPT !.current_version_id = repoint(i)]],
        versions |-> rest,
        nextVersionId |-> db.nextVersionId]

RECURSIVE deleteVersions(_, _)
\* a loop of deleteVersion calls over a list of rows
deleteVersions(db, rows) ==
    IF Len(rows) = 0 THEN db
    ELSE deleteVersions(deleteVersion(db, rows[1].id), Tail(rows))

SetStore(db) ==
    /\ files' = db.files
    /\ versions' = db.versions
    /\ nextVersionId' = db.nextVersionId

\* ---------------------------------------------------------------- save path
\* the lines of a text as the line diff of createPatch sees them: every line
\* carries its newline, the text after the last newline is a line without one,
\* and an empty one is dropped
DiffLines(content) ==
    LET n == Len(content)
        whole == [k \in 1..(n - 1) |-> [text |-> content[k], newline |-> TRUE]]
    IN IF n = 0 \/ content[n] = <<>> THEN whole
       ELSE Append(whole, [text |-> content[n], newline |-> FALSE])

RECURSIVE LcsLen(_, _)
\* length of a longest common subsequence of two line sequences
LcsLen(a, b) ==
    IF Len(a) = 0 \/ Len(b) = 0 THEN 0
    ELSE IF a[1] = b[1] THEN 1 + LcsLen(Tail(a), Tail(b))
    ELSE LET l == LcsLen(Tail(a), b)
             r == LcsLen(a, Tail(b))
         IN IF l >= r THEN l ELSE r

RECURSIVE Common(_, _)
\* the lines the patch keeps as context: a longest common subsequence
Common(a, b) ==
    IF Len(a) = 0 \/ Len(b) = 0 THEN <<>>
    ELSE IF a[1] = b[1] THEN <<a[1]>> \o Common(Tail(a), Tail(b))
    ELSE IF LcsLen(Tail(a), b) >= LcsLen(a, Tail(b)) THEN Common(Tail(a), b)
    ELSE Common(a, Tail(b))

RECURSIVE Without(_, _)
\* the lines of a that the patch marks, given the context lines kept
Without(a, kept) ==
    IF Len(a) = 0 THEN <<>>
    ELSE IF Len(kept) > 0 /\ a[1] = kept[1] THEN Without(Tail(a), Tail(kept))
    ELSE <<a[1]>> \o Without(Tail(a), kept)

\* `line.startsWith(mark + mark + mark)` of a patch line made of the mark and
\* the text of a document line
StartsWithThree(mark, text) == Len(text) > 0 /\ text[1] = mark \o mark

\* `!line.startsWith('+++') && !line.startsWith('---')` on the marked lines
NotHeaderLike(mark, rows) ==
    {k \in 1..Len(rows) : ~StartsWithThree(mark, rows[k].text)}

\* createPatch(...).split('\n') filtered to the lines that start with '+' or
\* '-' and then to those that do not start with '+++' or '---': their number
ChangedLines(previousContent, content) ==
    LET old == DiffLines(previousContent)
        new == DiffLines(content)
        kept == Common(old, new)
    IN Cardinality(NotHeaderLike("-", Without(old, kept)))
       + Cardinality(NotHeaderLike("+", Without(new, kept)))

\* the save handler's decision between the settings query and createVersion
ShouldPersist(db, fileId, content, saveAllChanges) ==
    LET latest == getFileVersionsLimit(db, fileId, 1)
    IN IF Len(latest) > 0 /\ latest[1].content = content THEN FALSE
       ELSE IF saveAllChanges THEN TRUE
       ELSE IF Len(latest) = 0 THEN ~(Len(content) <= 1)
       ELSE ~(ChangedLines(latest[1].content, content) <= NoiseThreshold)

OnWillSaveCreateAlways(path, content) ==
    /\ LET db == createFile(Store, path)
       IN /\ SetStore(db)
          /\ savesInFlight' = Append(savesInFlight,
                                     [file_id |-> Len(db.files), content |-> content])
    /\ UNCHANGED <<issued, gitVars, engineVars, historyVars>>

\* onWillSaveTextDocument up to `await settingsManager.getSaveAllChanges()`
OnWillSave(path, content) ==
    /\ LET found == getFile(Store, path)
           db == IF found = 0 THEN createFile(Store, path) ELSE Store
           fileId == IF found = 0 THEN Len(db.files) ELSE found
       IN /\ SetStore(db)
          /\ savesInFlight' = Append(savesInFlight, [file_id |-> fileId, content |-> content])
    /\ UNCHANGED <<issued, gitVars, engineVars, historyVars>>

\* the rest of the save handler, once the settings query has returned
SaveResume(k, saveAllChanges) ==
    /\ k \in 1..Len(savesInFlight)
    /\ LET s == savesInFlight[k]
       IN IF ShouldPersist(Store, s.file_id, s.content, saveAllChanges)
          THEN SetStore(createVersion(Store, s.file_id, s.content))
          ELSE UNCHANGED storeVars
    /\ savesInFlight' = [i \in 1..(Len(savesInFlight) - 1) |->
                            IF i < k THEN savesInFlight[i] ELSE savesInFlight[i + 1]]
    /\ UNCHANGED <<issued, gitVars, engineVars, historyVars>>

\* command llmcheckpoint.saveVersion on a dirty document
saveCurrentVersion(path, content) ==
    /\ LET found == getFile(Store, path)
           db == IF found = 0 THEN createFile(Store, path) ELSE Store
           fileId == IF found = 0 THEN Len(db.files) ELSE found
       IN SetStore(createVersion(db, fileId, content))
    /\ UNCHANGED <<issued, savesInFlight, gitVars, engineVars, historyVars>>

\* command llmcheckpoint.deleteVersion on a Version shown in the tree
deleteVersionCommand(versionId) ==
    /\ versionId \in {v.id : v \in versions}
    /\ SetStore(deleteVersion(Store, versionId))
    /\ UNCHANGED <<issued, savesInFlight, gitVars, engineVars, historyVars>>

RECURSIVE QuickCleanFromZero(_, _)
QuickCleanFromZero(db, i) ==
    IF i > Len(db.files) THEN db
    ELSE QuickCleanFromZero(deleteVersions(db, getFileVersions(db, i)), i + 1)

RECURSIVE QuickCleanFrom(_, _)
QuickCleanFrom(db, i) ==
    IF i > Len(db.files) THEN db
    ELSE LET vs == getFileVersions(db, i)
         IN QuickCleanFrom(IF Len(vs) > 1 THEN deleteVersions(db, Tail(vs)) ELSE db, i + 1)

\* command llmcheckpoint.quickClean, confirmed with 'Yes'
quickClean ==
    /\ SetStore(QuickCleanFrom(Store, 1))
    /\ UNCHANGED <<issued, savesInFlight, gitVars, engineVars, historyVars>>

ClearAllDroppingFiles(db, i) ==
    [files |-> <<>>, versions |-> {}, nextVersionId |-> db.nextVersionId]

RECURSIVE ClearAllFrom(_, _)
ClearAllFrom(db, i) ==
    IF i > Len(db.files) THEN db
    ELSE ClearAllFrom(deleteVersions(db, getFileVersions(db, i)), i + 1)

\* command llmcheckpoint.clearAll, confirmed with 'Yes'
clearAll ==
    /\ SetStore(ClearAllFrom(Store, 1))
    /\ UNCHANGED <<issued, savesInFlight, gitVars, engineVars, historyVars>>

\* ---------------------------------------------------------------- git
\* a file is added to the index
GitStage(r, p) ==
    /\ p \notin index[r]
    /\ index' = [index EXCEPT ![r] = @ \cup {p}]
    /\ UNCHANGED <<issued, storeVars, savesInFlight, head, headChanges, engineVars,
                   historyVars>>

\* a commit lands: HEAD gets another hash and the index empties
GitCommit(r, h) ==
    /\ headChanges[r] < MaxHeadChanges
    /\ h # head[r]
    /\ head' = [head EXCEPT ![r] = h]
    /\ headChanges' = [headChanges EXCEPT ![r] = @ + 1]
    /\ index' = [index EXCEPT ![r] = {}]
    /\ UNCHANGED <<issued, storeVars, savesInFlight, engineVars, historyVars>>

\* HEAD moves to an existing commit (checkout, reset): the index stays
GitCheckout(r, h) ==
    /\ headChanges[r] < MaxHeadChanges
    /\ head[r] # 0 /\ h # head[r]
    /\ head' = [head EXCEPT ![r] = h]
    /\ headChanges' = [headChanges EXCEPT ![r] = @ + 1]
    /\ UNCHANGED <<issued, storeVars, savesInFlight, index, engineVars, historyVars>>

\* ---------------------------------------------------------------- correlation
getLatestCommitMessageUntrimmed(result) ==
    IF result.ok THEN result.stdout ELSE <<>>

\* getLatestCommitMessage: stdout.trim(), '' when exec fails
getLatestCommitMessage(result) ==
    IF result.ok THEN Trim(result.stdout) ELSE <<>>

ExecResults == {[ok |-> FALSE, stdout |-> <<>>]} \cup {[ok |-> TRUE, stdout |-> o] : o \in Stdouts}

InCommitRaw(file_path, changedFiles) == file_path \in changedFiles

\* `changedFiles.has(path.normalize(file.file_path))`
InCommit(file_path, changedFiles) == Normalize(file_path) \in changedFiles

RECURSIVE DeleteLoop(_, _, _)
\* `for (const version of versions) fileVersionDB.deleteVersion(version.id)`
DeleteLoop(st, rows, failAt) ==
    IF st.threw \/ Len(rows) = 0 THEN st
    ELSE IF st.ops + 1 = failAt THEN [st EXCEPT !.threw = TRUE]
    ELSE DeleteLoop([st EXCEPT !.db = deleteVersion(@, rows[1].id), !.ops = @ + 1],
                    Tail(rows), failAt)

CleanupNewest(st, rows, failAt) == DeleteLoop(st, <<rows[1]>>, failAt)

\* the auto-cleanup of one File: every Version listed before the annotated one
Cleanup(st, rows, failAt) == DeleteLoop(st, rows, failAt)

RECURSIVE CommitLoop(_, _, _, _, _, _)
\* the loop of handleGitCommit over getAllFiles(); st.count is processedCount,
\* st.ops counts the store calls made, the failAt-th of which throws
CommitLoop(st, i, changedFiles, msg, auto, failAt) ==
    IF st.threw \/ i > Len(st.db.files) THEN st
    ELSE LET vs == getFileVersions(st.db, i)
         IN IF ~InCommit(st.db.files[i].file_path, changedFiles) \/ Len(vs) = 0
            THEN CommitLoop(st, i + 1, changedFiles, msg, auto, failAt)
            ELSE IF st.ops + 1 = failAt THEN [st EXCEPT !.threw = TRUE]
            ELSE LET created ==
                         [st EXCEPT !.db = createVersion(@, i, MarkedContent(msg, vs[1].content)),
                                    !.count = @ + 1,
                                    !.ops = @ + 1,
                                    !.log = Append(@, i)]
                     cleaned == IF auto THEN Cleanup(created, vs, failAt) ELSE created
                 IN CommitLoop(cleaned, i + 1, changedFiles, msg, auto, failAt)

NoEntry == [has |-> FALSE, files |-> {}]

IgnoredNever(r) == FALSE

IgnoredGlobal(r) == \E q \in DOMAIN isProcessingCommit : isProcessingCommit[q]

\* `if (isProcessingCommit) return;`
Ignored(r) == isProcessingCommit[r]

HashChangedAlways(lastCommit, commit) == TRUE

\* `lastCommit !== commit`
HashChanged(lastCommit, commit) == lastCommit # commit

EndRoundGuardKept(r, result) ==
    /\ UNCHANGED isProcessingCommit
    /\ pc' = [pc EXCEPT ![r] = "idle"]
    /\ commitMessage' = [commitMessage EXCEPT ![r] = <<>>]
    /\ autoCleanup' = [autoCleanup EXCEPT ![r] = FALSE]
    /\ roundResult' = [roundResult EXCEPT ![r] = result]
    /\ ignored' = [ignored EXCEPT ![r] = FALSE]

\* the `finally` of the round: the guard is cleared and the handler is over
EndRound(r, result) ==
    /\ isProcessingCommit' = [isProcessingCommit EXCEPT ![r] = FALSE]
    /\ pc' = [pc EXCEPT ![r] = "idle"]
    /\ commitMessage' = [commitMessage EXCEPT ![r] = <<>>]
    /\ autoCleanup' = [autoCleanup EXCEPT ![r] = FALSE]
    /\ roundResult' = [roundResult EXCEPT ![r] = result]
    /\ ignored' = [ignored EXCEPT ![r] = FALSE]

TrackStagedIfAbsent(r) ==
    IF stagedChangesMap[r].has THEN stagedChangesMap[r]
    ELSE [has |-> TRUE, files |-> {Normalize(p) : p \in index[r]}]

\* the entry written for the staged files: the index paths, normalized
TrackStaged(r) == [has |-> TRUE, files |-> {Normalize(p) : p \in index[r]}]

\* repository.state.onDidChange up to `await getLatestCommitMessage(repoPath)`;
\* indexThrows: reading an index change throws, which the outer catch logs
onDidChange(r, indexThrows) ==
    /\ IF Ignored(r)
       THEN /\ ignored' = [ignored EXCEPT ![r] = TRUE]
            /\ UNCHANGED <<engineVars, roundEpoch, processedCount, refreshes, roundResult,
                           annotLog>>
       ELSE IF head[r] = 0
       THEN UNCHANGED <<engineVars, historyVars>>
       ELSE IF indexThrows
       THEN /\ isProcessingCommit' = [isProcessingCommit EXCEPT ![r] = FALSE]
            /\ UNCHANGED <<lastCommitByRepo, stagedChangesMap, pc, commitMessage, autoCleanup,
                           historyVars>>
       ELSE /\ stagedChangesMap' = [stagedChangesMap EXCEPT ![r] = TrackStaged(r)]
            /\ IF HashChanged(lastCommitByRepo[r], head[r])
               THEN /\ isProcessingCommit' = [isProcessingCommit EXCEPT ![r] = TRUE]
                    /\ lastCommitByRepo' = [lastCommitByRepo EXCEPT ![r] = head[r]]
                    /\ pc' = [pc EXCEPT ![r] = "awaitMessage"]
                    /\ roundEpoch' = [roundEpoch EXCEPT ![r] = headChanges[r]]
                    /\ processedCount' = [processedCount EXCEPT ![r] = 0]
                    /\ refreshes' = [refreshes EXCEPT ![r] = 0]
                    /\ roundResult' = [roundResult EXCEPT ![r] = "none"]
                    /\ UNCHANGED <<commitMessage, autoCleanup, annotLog, ignored>>
               ELSE UNCHANGED <<lastCommitByRepo, isProcessingCommit, pc, commitMessage,
                                autoCleanup, historyVars>>
    /\ UNCHANGED <<issued, storeVars, savesInFlight, gitVars>>

\* the commit-message query returns: abort on '', else enter handleGitCommit up to
\* `await settingsManager.getAutoCleanupAfterCommit()`, or end when nothing is staged
messageReturns(r, result) ==
    /\ pc[r] = "awaitMessage"
    /\ LET msg == getLatestCommitMessage(result)
       IN IF msg = <<>>
          THEN EndRound(r, "aborted")
          ELSE IF stagedChangesMap[r].has /\ stagedChangesMap[r].files # {}
          THEN /\ pc' = [pc EXCEPT ![r] = "awaitSettings"]
               /\ commitMessage' = [commitMessage EXCEPT ![r] = msg]
               /\ UNCHANGED <<isProcessingCommit, autoCleanup, roundResult, ignored>>
          ELSE EndRound(r, "unstaged")
    /\ UNCHANGED <<issued, storeVars, savesInFlight, gitVars, lastCommitByRepo, stagedChangesMap,
                   roundEpoch, processedCount, refreshes, annotLog>>

AfterHandleGitCommitKeep(r, result) ==
    /\ UNCHANGED stagedChangesMap
    /\ EndRound(r, result)

\* what follows `await handleGitCommit(...)` in the watcher
AfterHandleGitCommit(r, result) ==
    /\ stagedChangesMap' = [stagedChangesMap EXCEPT ![r] = NoEntry]
    /\ EndRound(r, result)

\* the settings query returns and the loop of handleGitCommit runs, up to
\* `await settingsManager.showConditionalInfoMessage(message)` or to the end of the round
settingsReturns(r, auto, settingsThrows, failAt) ==
    /\ pc[r] = "awaitSettings"
    /\ IF settingsThrows
       THEN /\ AfterHandleGitCommit(r, "error")
            /\ UNCHANGED <<storeVars, processedCount, refreshes, annotLog>>
       ELSE LET st == CommitLoop([db |-> Store, count |-> 0, ops |-> 0, threw |-> FALSE,
                                  log |-> <<>>],
                                 1, stagedChangesMap[r].files, commitMessage[r],
                                 auto, failAt)
            IN /\ SetStore(st.db)
               /\ processedCount' = [processedCount EXCEPT ![r] = st.count]
               /\ annotLog' = [annotLog EXCEPT ![r] =
                      @ \o [k \in 1..Len(st.log) |-> <<roundEpoch[r], st.log[k]>>]]
               /\ IF ~st.threw /\ st.count > 0
                  THEN /\ refreshes' = [refreshes EXCEPT ![r] = @ + 1]
                       /\ pc' = [pc EXCEPT ![r] = "awaitInfo"]
                       /\ autoCleanup' = [autoCleanup EXCEPT ![r] = auto]
                       /\ UNCHANGED <<stagedChangesMap, isProcessingCommit, commitMessage,
                                      roundResult, ignored>>
                  ELSE /\ AfterHandleGitCommit(r, IF st.threw THEN "error" ELSE "done")
                       /\ UNCHANGED refreshes
    /\ UNCHANGED <<issued, savesInFlight, gitVars, lastCommitByRepo, roundEpoch>>

\* showConditionalInfoMessage returns or throws; handleGitCommit returns either way
infoReturns(r, infoThrows) ==
    /\ pc[r] = "awaitInfo"
    /\ AfterHandleGitCommit(r, IF infoThrows THEN "error" ELSE "done")
    /\ UNCHANGED <<issued, storeVars, savesInFlight, gitVars, lastCommitByRepo,
                   roundEpoch, processedCount, refreshes, annotLog>>

\* ---------------------------------------------------------------- specification
\* the state after activation, with a watcher set up for each repository in `open`
InitOf(open) ==
    /\ files = <<>>
    /\ versions = {}
    /\ nextVersionId = 1
    /\ savesInFlight = <<>>
    /\ head \in [open -> {0, 1}]
    /\ headChanges = [r \in open |-> 0]
    /\ index = [r \in open |-> {}]
    /\ lastCommitByRepo = [r \in open |-> 0]
    /\ stagedChangesMap = [r \in open |-> NoEntry]
    /\ isProcessingCommit = [r \in open |-> FALSE]
    /\ pc = [r \in open |-> "idle"]
    /\ commitMessage = [r \in open |-> <<>>]
    /\ autoCleanup = [r \in open |-> FALSE]
    /\ roundEpoch = [r \in open |-> 0]
    /\ processedCount = [r \in open |-> 0]
    /\ refreshes = [r \in open |-> 0]
    /\ roundResult = [r \in open |-> "none"]
    /\ annotLog = [r \in open |-> <<>>]
    /\ ignored = [r \in open |-> FALSE]
    /\ issued = <<>>

Init == InitOf(Repos)

Next ==
    \/ \E p \in DocPaths, c \in Docs :
          /\ nextVersionId + Len(savesInFlight) <= MaxSaveVersionId
          /\ Len(savesInFlight) < MaxSavesInFlight
          /\ OnWillSave(p, c)
    \/ \E k \in 1..MaxSavesInFlight, a \in BOOLEAN : SaveResume(k, a)
    \/ \E p \in DocPaths, c \in Docs :
          /\ nextVersionId + Len(savesInFlight) <= MaxSaveVersionId
          /\ saveCurrentVersion(p, c)
    \/ \E id \in 1..(nextVersionId - 1) : deleteVersionCommand(id)
    \/ quickClean
    \/ clearAll
    \/ \E r \in Repos, p \in IndexPaths : GitStage(r, p)
    \/ \E r \in Repos, h \in Hashes : GitCommit(r, h)
    \/ \E r \in Repos, h \in Hashes : GitCheckout(r, h)
    \/ \E r \in Repos, t \in BOOLEAN : onDidChange(r, t)
    \/ \E r \in Repos, res \in ExecResults : messageReturns(r, res)
    \/ \E r \in Repos, a \in BOOLEAN, t \in BOOLEAN, f \in 0..MaxFailAt :
          settingsReturns(r, a, t, f)
    \/ \E r \in Repos, t \in BOOLEAN : infoReturns(r, t)

Spec == Init /\ [][Next]_vars

\* The save path alone, with documents that exercise every branch of the
\* save handler's filter and two handlers suspended at a time.
SaveNext ==
    \/ \E p \in SavePaths, c \in SaveDocs :
          /\ nextVersionId + Len(savesInFlight) <= MaxSaveSteps
          /\ Len(savesInFlight) < MaxSaveHandlers
          /\ OnWillSave(p, c)
    \/ \E k \in 1..MaxSaveHandlers, a \in BOOLEAN : SaveResume(k, a)
    \/ \E p \in SavePaths, c \in SaveDocs :
          /\ nextVersionId + Len(savesInFlight) <= MaxSaveSteps
          /\ saveCurrentVersion(p, c)
    \/ \E id \in 1..(nextVersionId - 1) : deleteVersionCommand(id)

SaveSpec == Init /\ [][SaveNext]_vars

\* the highest version_number ever assigned, per File, once the store is db
Issued(db) ==
    [i \in FileIds(db) |->
        Max({IF i <= Len(issued) THEN issued[i] ELSE 0}
              \cup {v.version_number : v \in VersionsOf(db, i)})]

\* a store call, or a loop of them a handler runs without suspending, takes
\* effect and the numbers assigned are recorded
StoreCall(db) ==
    /\ SetStore(db)
    /\ issued' = Issued(db)
    /\ UNCHANGED <<savesInFlight, gitVars, engineVars, historyVars>>

\* The version store alone, under any sequence of the calls the handlers make:
\* createFile after a failed getFile, createVersion, deleteVersion, the loops of
\* clear-all and quick-clean, and a correlation pass with auto-cleanup.
StoreNext ==
    \/ \E p \in SavePaths : getFile(Store, p) = 0 /\ StoreCall(createFile(Store, p))
    \/ \E i \in 1..Len(files), c \in Docs :
          nextVersionId <= MaxStoreVersionId /\ StoreCall(createVersion(Store, i, c))
    \/ \E id \in {v.id : v \in versions} : StoreCall(deleteVersion(Store, id))
    \/ versions # {} /\ StoreCall(ClearAllFrom(Store, 1))
    \/ versions # {} /\ StoreCall(QuickCleanFrom(Store, 1))
    \/ \E changedFiles \in SUBSET SavePaths :
          /\ nextVersionId <= MaxStoreVersionId
          /\ StoreCall(CommitLoop([db |-> Store, count |-> 0, ops |-> 0, threw |-> FALSE,
                                   log |-> <<>>],
                                  1, changedFiles, <<"fix", " ", "bug">>, TRUE, 0).db)

StoreSpec == Init /\ [][StoreNext]_vars

\* a workspace with two repositories, both watched
PairInit == InitOf(BothRepos)

\* The correlation engines of two repositories side by side, over one store
\* that a manual save has put a Version in.
PairNext ==
    \/ nextVersionId <= 1 /\ saveCurrentVersion(<<"b.txt">>, BaseDoc)
    \/ \E r \in BothRepos, p \in IndexPaths : GitStage(r, p)
    \/ \E r \in BothRepos, h \in Hashes : GitCommit(r, h)
    \/ \E r \in BothRepos, t \in BOOLEAN : onDidChange(r, t)
    \/ \E r \in BothRepos, res \in ExecResults : messageReturns(r, res)
    \/ \E r \in BothRepos, a \in BOOLEAN, t \in BOOLEAN : settingsReturns(r, a, t, 0)
    \/ \E r \in BothRepos, t \in BOOLEAN : infoReturns(r, t)

PairSpec == PairInit /\ [][PairNext]_vars

\* Every query a round awaits returns: the exec of git log, the settings query
\* and the info message.  For the settings query the condition is written on
\* one outcome (the query rejects): every outcome is enabled exactly when the
\* handler awaits the query and every outcome ends the wait, so the condition
\* is that of the query returning at all.
FairSpec ==
    /\ Spec
    /\ \A r \in Repos :
        /\ WF_vars(\E res \in ExecResults : messageReturns(r, res))
        /\ WF_vars(settingsReturns(r, FALSE, TRUE, 0))
        /\ WF_vars(\E t \in BOOLEAN : infoReturns(r, t))

\* ---------------------------------------------------------------- properties
\* the snapshot a notification of r would take of the index now
IndexSnapshot(r) == {Normalize(p) : p \in index[r]}

\* C1: a notification that arrives while isProcessingCommit is true for its
\* repository changes neither lastObservedCommitHash nor pendingStagedFiles,
\* creates and deletes no Version and emits no UI-refresh signal.
C1_IgnoredWhileProcessing ==
    [][\A r \in Repos, t \in BOOLEAN :
          (isProcessingCommit[r] /\ onDidChange(r, t))
              => UNCHANGED <<lastCommitByRepo, stagedChangesMap, isProcessingCommit, pc,
                             storeVars, refreshes, processedCount, annotLog>>]_vars

\* a round is in flight, the index and HEAD have moved since its snapshot, and
\* a notification has been ignored
C1_Witness ==
    \E r \in Repos :
        /\ isProcessingCommit[r] /\ ignored[r]
        /\ IndexSnapshot(r) # stagedChangesMap[r].files
        /\ head[r] # lastCommitByRepo[r]

\* C2: at most one annotated Version is created per File for one change of
\* the HEAD hash, whatever the number and interleaving of notifications.
C2_NoDoubleProcessing ==
    \A r \in Repos : \A i, j \in 1..Len(annotLog[r]) :
        annotLog[r][i] = annotLog[r][j] => i = j

\* a File was annotated for the current HEAD and a later notification has
\* seen the same HEAD again without starting a round
C2_Witness ==
    \E r \in Repos :
        /\ \E k \in 1..Len(annotLog[r]) : annotLog[r][k][1] = headChanges[r]
        /\ pc[r] = "idle" /\ stagedChangesMap[r].has
        /\ lastCommitByRepo[r] = head[r]


\* the Versions of a File before and after a step
VersionsBefore(i) == {v \in versions : v.file_id = i}
VersionsAfter(i) == {v \in versions' : v.file_id = i}

\* the Version with the highest version_number among a non-empty set
LatestOf(S) == CHOOSE v \in S : \A w \in S : w.version_number <= v.version_number

\* the Files a pass of r is to annotate: staged by normalized path, with a Version
ToAnnotate(r) ==
    {i \in 1..Len(files) :
        /\ Normalize(files[i].file_path) \in stagedChangesMap[r].files
        /\ VersionsBefore(i) # {}}

\* C3: files staged and snapshotted while the HEAD hash is unchanged, then the
\* commit lands: the notification that sees the changed hash and an empty index
\* keeps the pre-commit snapshot, whose Files have Versions, as the set used
\* for the pass.  (The last round ended other than by an abort, so the entry
\* with files in it was written by a notification that saw the hash unchanged.)
C3_PreCommitSnapshotUsed ==
    [][\A r \in Repos :
          ( /\ ~isProcessingCommit[r]
            /\ roundResult[r] \in {"unstaged", "done", "error"}
            /\ lastCommitByRepo[r] # 0 /\ head[r] # lastCommitByRepo[r]
            /\ stagedChangesMap[r].has /\ ToAnnotate(r) # {}
            /\ index[r] = {}
            /\ onDidChange(r, FALSE) )
              => stagedChangesMap'[r].files = stagedChangesMap[r].files]_vars

\* the step is a pass of r that no error interrupts
PassStep(r, auto) ==
    /\ \E f \in 0..MaxFailAt : settingsReturns(r, auto, FALSE, f)
    /\ roundResult'[r] # "error"

\* C4: a pass gives every File to annotate exactly one new Version, the marker
\* line with the commit message followed by the content of the File's latest
\* Version, and leaves the Versions and the pointer of every other File alone.
C4_AnnotationPass ==
    [][\A r \in Repos, auto \in BOOLEAN :
          PassStep(r, auto) =>
              \A i \in 1..Len(files) :
                  IF i \in ToAnnotate(r)
                  THEN /\ Cardinality(VersionsAfter(i) \ VersionsBefore(i)) = 1
                       /\ \A v \in VersionsAfter(i) \ VersionsBefore(i) :
                             v.content = <<MarkerLine(commitMessage[r])>>
                                            \o LatestOf(VersionsBefore(i)).content
                  ELSE /\ VersionsAfter(i) = VersionsBefore(i)
                       /\ files'[i] = files[i]]_vars

\* a pass has just annotated a File whose latest Version had three lines or
\* was itself an annotated one
C4_Witness ==
    \E r \in Repos :
        /\ pc[r] = "awaitInfo" /\ processedCount[r] > 0
        /\ \E v \in versions :
              /\ v.id = nextVersionId - 1
              /\ Len(v.content) >= 4
              /\ v.content[1] = MarkerLine(commitMessage[r])

\* C5: with autoCleanupAfterCommit a processed File is left with exactly its
\* annotated Version, which current_version_id references; without the setting
\* the pass deletes no Version.
C5_AutoCleanupCollapse ==
    [][\A r \in Repos :
          /\ PassStep(r, TRUE) =>
                \A i \in ToAnnotate(r) :
                    /\ Cardinality(VersionsAfter(i)) = 1
                    /\ VersionsAfter(i) \cap VersionsBefore(i) = {}
                    /\ \A v \in VersionsAfter(i) : files'[i].current_version_id = v.id
          /\ (\E t \in BOOLEAN, f \in 0..MaxFailAt : settingsReturns(r, FALSE, t, f))
                => versions \subseteq versions']_vars

\* a pass with auto-cleanup has collapsed a File that had two Versions
C5_Witness ==
    \E r \in Repos :
        /\ pc[r] = "awaitInfo" /\ autoCleanup[r]
        /\ \E v \in versions :
              /\ v.id = nextVersionId - 1 /\ v.version_number >= 3
              /\ VersionsOf(Store, v.file_id) = {v}

\* C6: when no handler of a repository is in flight its guard is false, and a
\* guard that is set is cleared again once the pending queries return.
C6_GuardNeverStuck ==
    /\ [](\A r \in Repos : pc[r] = "idle" => ~isProcessingCommit[r])
    /\ \A r \in Repos : isProcessingCommit[r] ~> ~isProcessingCommit[r]

\* a round has ended on an error after processing a File, guard cleared
C6_Witness ==
    \E r \in Repos :
        /\ roundResult[r] = "error" /\ processedCount[r] > 0
        /\ pc[r] = "idle" /\ ~isProcessingCommit[r]

\* the commit-message query fails, or prints nothing but whitespace
EmptyOrFailed(res) ==
    ~res.ok \/ \A k \in 1..Len(res.stdout) : res.stdout[k] \in Whitespace

\* C7: when the commit-message query returns empty or fails, the round creates
\* and deletes no Version, leaves pendingStagedFiles as snapshotted, emits no
\* UI-refresh signal and clears the guard.
C7_EmptyMessageAbort ==
    [][\A r \in Repos, res \in ExecResults :
          (EmptyOrFailed(res) /\ messageReturns(r, res))
              => /\ UNCHANGED <<storeVars, stagedChangesMap, refreshes, processedCount>>
                 /\ ~isProcessingCommit'[r]
                 /\ pc'[r] = "idle"]_vars

\* a round for a new HEAD has been aborted although a staged File had a Version
C7_Witness ==
    \E r \in Repos :
        /\ roundResult[r] = "aborted" /\ pc[r] = "idle"
        /\ lastCommitByRepo[r] = head[r]
        /\ stagedChangesMap[r].has /\ ToAnnotate(r) # {}

\* C8: when an error interrupts the pass, the handler still ends, the annotated
\* Versions created before the error stay in the store, pendingStagedFiles is
\* cleared and the guard is cleared.
C8_PartialFailure ==
    [][\A r \in Repos :
          ( /\ \E a \in BOOLEAN, t \in BOOLEAN, f \in 0..MaxFailAt :
                  settingsReturns(r, a, t, f)
            /\ roundResult'[r] = "error" )
              => /\ pc'[r] = "idle"
                 /\ ~isProcessingCommit'[r]
                 /\ stagedChangesMap'[r] = NoEntry
                 /\ Cardinality(versions' \ versions) = processedCount'[r]
                 /\ \A v \in versions' \ versions :
                       v.content[1] = MarkerLine(commitMessage[r])]_vars

\* a pass was interrupted after it had annotated a File: the Version is there
C8_Witness ==
    \E r \in Repos :
        /\ roundResult[r] = "error" /\ processedCount[r] > 0 /\ pc[r] = "idle"
        /\ ~stagedChangesMap[r].has
        /\ \E v \in versions :
              /\ v.id = nextVersionId - 1
              /\ v.content[1] = MarkerLine(<<"fix", " ", "bug">>)

\* C9: in every round, whether the pass completes or an error interrupts it,
\* one UI-refresh signal is emitted if a File was processed and none otherwise.
C9_RefreshIffProcessed ==
    \A r \in Repos : refreshes[r] = IF processedCount[r] > 0 THEN 1 ELSE 0

\* C10: no two Versions of a File share a version_number; every Version
\* created gets the File's highest existing version_number plus one, or 1;
\* and as long as nothing has been deleted a File's numbers are 1..n.
C10_VersionNumbering ==
    /\ [](\A v, w \in versions :
            (v.file_id = w.file_id /\ v.version_number = w.version_number) => v = w)
    /\ [](Cardinality(versions) = nextVersionId - 1 =>
            \A i \in 1..Len(files) :
                {v.version_number : v \in VersionsOf(Store, i)}
                    = 1..Cardinality(VersionsOf(Store, i)))
    /\ [][\A v \in versions' \ versions :
            v.version_number =
                IF VersionsBefore(v.file_id) = {} THEN 1
                ELSE LatestOf(VersionsBefore(v.file_id)).version_number + 1]_vars

\* a File whose Version 1 was deleted holds Versions 2 and 3
C10_Witness ==
    \E v, w \in versions :
        /\ v.file_id = w.file_id
        /\ v.version_number = 3 /\ w.version_number = 2
        /\ Cardinality(VersionsOf(Store, v.file_id)) = 2

\* C11: in every reachable state each File's current_version_id is null
\* exactly when the File has no Version, and otherwise references the Version
\* of that File with the highest version_number.
C11_CurrentPointer ==
    \A i \in 1..Len(files) :
        IF VersionsOf(Store, i) = {}
        THEN files[i].current_version_id = 0
        ELSE files[i].current_version_id = LatestOf(VersionsOf(Store, i)).id

\* the Version created last was the one a File pointed to and has been
\* deleted: the pointer is back on an older Version of that File
C11_Witness ==
    /\ Len(files) = 1 /\ nextVersionId >= 3
    /\ \E v \in versions :
          /\ v.id < nextVersionId - 1
          /\ files[1].current_version_id = v.id
          /\ \A w \in versions : w.version_number <= v.version_number

\* C13: no step removes a File or changes the id or file_path of one: after
\* saves, user deletes, quick-clean, clear-all and passes with auto-cleanup
\* every File ever created is still there, also with zero Versions.
C13_FilesNeverDeleted ==
    [][/\ Len(files') >= Len(files)
       /\ \A i \in 1..Len(files) : files'[i].file_path = files[i].file_path]_vars

\* every Version ever created has been deleted and the Files are in place,
\* no save being in flight
C13_Witness ==
    /\ nextVersionId >= 3 /\ versions = {} /\ savesInFlight = <<>>
    /\ Len(files) >= 1
    /\ \A i \in 1..Len(files) : files[i].current_version_id = 0

\* the lines a unified line diff of two texts marks as added or removed
MarkedLines(previousContent, content) ==
    LET old == DiffLines(previousContent)
        new == DiffLines(content)
        kept == Common(old, new)
    IN Len(Without(old, kept)) + Len(Without(new, kept))

\* the decision of the Change-Significance Filter as the specification gives it
FilterPersists(hasPrevious, previousContent, content, saveAllChanges) ==
    IF ~hasPrevious THEN saveAllChanges \/ Len(content) > 1
    ELSE IF previousContent = content THEN FALSE
    ELSE saveAllChanges \/ MarkedLines(previousContent, content) > 2

\* C12: the editor-save handler creates a Version exactly when the decision
\* function says persist, for every previous latest content (or none), every
\* candidate and both values of saveAllChanges.
C12_FilterDecision ==
    [][\A k \in 1..Len(savesInFlight), a \in BOOLEAN :
          SaveResume(k, a) =>
              LET s == savesInFlight[k]
                  had == VersionsBefore(s.file_id) # {}
                  previous == IF had THEN LatestOf(VersionsBefore(s.file_id)).content
                              ELSE <<>>
              IN (versions' # versions) <=> FilterPersists(had, previous, s.content, a)]_vars

\* C14: every notification that is not ignored (guard clear, HEAD commit
\* present, the index read) replaces pendingStagedFiles with the paths indexed
\* now; when the HEAD hash equals lastObservedCommitHash it does nothing else:
\* no Version created or deleted, hash and guard unchanged, no UI refresh.
C14_SnapshotEveryRound ==
    [][\A r \in Repos :
          (~isProcessingCommit[r] /\ head[r] # 0 /\ onDidChange(r, FALSE))
              => /\ stagedChangesMap'[r] = [has |-> TRUE, files |-> IndexSnapshot(r)]
                 /\ head[r] = lastCommitByRepo[r]
                       => UNCHANGED <<storeVars, lastCommitByRepo, isProcessingCommit, pc,
                                      refreshes, processedCount, annotLog>>]_vars

\* after a round that ran to its end, which leaves no staged file behind, a
\* notification for the same HEAD has snapshotted a staged File with a Version
C14_Witness ==
    \E r \in Repos :
        /\ roundResult[r] \in {"unstaged", "done", "error"} /\ pc[r] = "idle"
        /\ lastCommitByRepo[r] = head[r]
        /\ stagedChangesMap[r].has /\ ToAnnotate(r) # {}

\* C15: after a round aborted on an empty or unavailable commit message, with
\* the HEAD hash and the staged files as that round saw them and a staged File
\* that has a Version, the next notification of the repository starts a round
\* again: the round that asks for the message anew and annotates the commit.
C15_RetryAfterAbort ==
    \A r \in Repos :
        ( /\ roundResult[r] = "aborted" /\ pc[r] = "idle"
          /\ head[r] = lastCommitByRepo[r]
          /\ IndexSnapshot(r) = stagedChangesMap[r].files
          /\ ToAnnotate(r) # {} )
            => ENABLED (onDidChange(r, FALSE) /\ pc'[r] = "awaitMessage")

\* C16: an annotated Version is created only in a round that saw HEAD differ
\* from a hash recorded at an earlier notification: none is created by a round
\* started while HEAD has not moved since watching began, which is the round
\* of the first notification (lastObservedCommitHash absent).
C16_OnlyGenuineCommits ==
    \A r \in Repos : \A k \in 1..Len(annotLog[r]) : annotLog[r][k][1] > 0

\* C18: as a rejected save changes neither the Files nor the Versions, a File
\* row comes only with a save that creates a Version: while no Version has
\* ever been created and no save is in flight, there is no File.
C18_RejectedSaveNoEffect ==
    (nextVersionId = 1 /\ savesInFlight = <<>>) => files = <<>>

\* C17: within one File, under any interleaving of createVersion and
\* deleteVersion (clear-all and auto-cleanup included), every Version created
\* gets a version_number greater than that of every Version created for the
\* File before, so that no number is assigned twice over the File's history.
C17_StrictlyIncreasing ==
    [][\A v \in versions' \ versions :
          v.version_number > IF v.file_id <= Len(issued) THEN issued[v.file_id] ELSE 0]_vars

\* the step is a stretch of a notification handler of repository r
HandlerStep(r) ==
    \/ \E t \in BOOLEAN : onDidChange(r, t)
    \/ \E res \in ExecResults : messageReturns(r, res)
    \/ \E a \in BOOLEAN, t \in BOOLEAN : settingsReturns(r, a, t, 0)
    \/ \E t \in BOOLEAN : infoReturns(r, t)

\* C19: the handlers of one repository leave the hash, the staged set and the
\* guard of every other repository unchanged; and while repository a is in a
\* processing round a notification of repository b is handled as usual: the
\* staged set of b is snapshotted and a changed hash of b starts a round of b.
C19_RepoIsolation ==
    [][\A a, b \in BothRepos :
          a # b =>
            /\ HandlerStep(b) =>
                  /\ lastCommitByRepo'[a] = lastCommitByRepo[a]
                  /\ stagedChangesMap'[a] = stagedChangesMap[a]
                  /\ isProcessingCommit'[a] = isProcessingCommit[a]
            /\ ( /\ isProcessingCommit[a] /\ ~isProcessingCommit[b] /\ head[b] # 0
                 /\ onDidChange(b, FALSE) )
                  => /\ stagedChangesMap'[b] = [has |-> TRUE, files |-> IndexSnapshot(b)]
                     /\ head[b] # lastCommitByRepo[b]
                           => /\ isProcessingCommit'[b]
                              /\ lastCommitByRepo'[b] = head[b]
                              /\ pc'[b] = "awaitMessage"]_vars

\* two repositories are in a processing round at the same time, with
\* different hashes recorded and different staged sets
C19_Witness ==
    \E a, b \in BothRepos :
        /\ isProcessingCommit[a] /\ isProcessingCommit[b]
        /\ pc[a] = "awaitSettings" /\ pc[b] = "awaitMessage"
        /\ lastCommitByRepo[a] # lastCommitByRepo[b]
        /\ stagedChangesMap[a].files # stagedChangesMap[b].files

\* C20: in every reachable state at most one File exists per file_path, and
\* under any interleaving of editor-save handlers (each suspended at its
\* settings query) and manual saves of the same new path, no File is created
\* for a path that already has one.
C20_PathUnique ==
    /\ [](\A i, j \in 1..Len(files) : files[i].file_path = files[j].file_path => i = j)
    /\ [][\A j \in (Len(files) + 1)..Len(files') :
            \A i \in 1..Len(files) : files[i].file_path # files'[j].file_path]_vars

\* two editor-save handlers of one path are suspended, the second begun after
\* the first had created the File, and the File has no Version yet
C20_Witness ==
    /\ Len(savesInFlight) = 2
    /\ savesInFlight[1].file_id = savesInFlight[2].file_id
    /\ VersionsOf(Store, savesInFlight[1].file_id) = {}
    /\ nextVersionId = 1

C22_NoDuplicateSave ==
    [][\A v \in versions' \ versions :
          VersionsBefore(v.file_id) # {}
              => v.content # LatestOf(VersionsBefore(v.file_id)).content]_vars

====
